---------------------------- MODULE Spec2Model ----------------------------
(***************************************************************************)
(* A model of thefotes/motorsport-ics:                                     *)
(*   src/scrape_nascar.py      the Record Normalizer (clean_string,        *)
(*                             extract_race_info, extract_track_info and   *)
(*                             the merging loop of main)                   *)
(*   src/generate_calendar.py  the Calendar Emitter (parse_race_datetime,  *)
(*                             escape_ics_text, create_ics_event and the   *)
(*                             emission loop of generate_ics_calendar)     *)
(*                                                                         *)
(* Python str values are TLA+ strings (TLC evaluates Len, \o, SubSeq, Head *)
(* and Tail on them).  A Python value of any type is a tagged record, see  *)
(* PyS, PyI and PyNone; a dict is a function from its keys to such values. *)
(***************************************************************************)
EXTENDS Integers, Sequences, FiniteSets, TLC

(***************************************************************************)
(* Bounds of the model.                                                    *)
(***************************************************************************)
\* longest text handed to escape_ics_text in EscapeSpec
MaxLen == 3
\* longest all_races_chronological list handed to generate_ics_calendar
MaxRaces == 2
\* most raw race records returned by all the fetches of one run of main
MaxRaw == 3

(***************************************************************************)
(* Python values.                                                          *)
(***************************************************************************)
PyS(s) == [t |-> "str", v |-> s]
PyI(n) == [t |-> "int", v |-> n]
PyNone == [t |-> "None", v |-> 0]

IsStr(x) == x.t = "str"

\* bool(x): None, 0 and "" are false
Truthy(x) ==
  CASE x.t = "None" -> FALSE
    [] x.t = "int" -> x.v # 0
    [] OTHER -> x.v # ""

\* d.get(k): None when the key is absent
Get(d, k) == IF k \in DOMAIN d THEN d[k] ELSE PyNone

\* d.get(k, dflt)
GetOr(d, k, dflt) == IF k \in DOMAIN d THEN d[k] ELSE dflt

Min(a, b) == IF a <= b THEN a ELSE b

Chr(s, i) == SubSeq(s, i, i)

\* s[a:b] for 0 <= a, b
PySlice(s, a, b) ==
  IF a < Min(b, Len(s)) THEN SubSeq(s, a + 1, Min(b, Len(s))) ELSE ""

Digits == "0123456789"

IsDigit(c) == \E i \in 1..10 : Chr(Digits, i) = c

DigitVal(c) == (CHOOSE i \in 1..10 : Chr(Digits, i) = c) - 1

AllDigits(s) == \A i \in 1..Len(s) : IsDigit(Chr(s, i))

RECURSIVE NatVal(_)
\* the number a non-empty string of digits denotes
NatVal(s) ==
  IF s = "" THEN 0
  ELSE 10 * NatVal(SubSeq(s, 1, Len(s) - 1)) + DigitVal(Chr(s, Len(s)))

RECURSIVE NatStr(_)
NatStr(n) ==
  IF n < 10 THEN Chr(Digits, n + 1)
  ELSE NatStr(n \div 10) \o Chr(Digits, (n % 10) + 1)

\* str(x), and what an f-string puts for {x}
PyStr(x) ==
  CASE x.t = "None" -> "None"
    [] x.t = "int" -> IF x.v < 0 THEN "-" \o NatStr(-x.v) ELSE NatStr(x.v)
    [] OTHER -> x.v

IsSpace(c) == c \in {" ", "\t", "\n", "\r", "\f"}

RECURSIVE LStrip(_)
LStrip(s) == IF s # "" /\ IsSpace(Head(s)) THEN LStrip(Tail(s)) ELSE s

RECURSIVE RStrip(_)
RStrip(s) ==
  IF s # "" /\ IsSpace(Chr(s, Len(s)))
  THEN RStrip(SubSeq(s, 1, Len(s) - 1)) ELSE s

\* str.strip()
Strip(s) == RStrip(LStrip(s))

RECURSIVE Replace(_, _, _)
\* s.replace(c, r) for a one-character c (the string is halved, so that the
\* evaluation of a long string stays shallow)
Replace(s, c, r) ==
  IF s = "" THEN ""
  ELSE IF Len(s) = 1 THEN (IF s = c THEN r ELSE s)
  ELSE Replace(SubSeq(s, 1, Len(s) \div 2), c, r)
         \o Replace(SubSeq(s, (Len(s) \div 2) + 1, Len(s)), c, r)

\* int(s) of a slice of at most two characters: surrounding whitespace and
\* one sign are accepted; anything else is a ValueError
IntOk(s) ==
  LET u == Strip(s)
      w == IF u # "" /\ Head(u) \in {"+", "-"} THEN Tail(u) ELSE u
  IN  w # "" /\ AllDigits(w)

IntVal(s) ==
  LET u == Strip(s)
  IN  IF Head(u) = "-" THEN -NatVal(Tail(u))
      ELSE IF Head(u) = "+" THEN NatVal(Tail(u)) ELSE NatVal(u)


(***************************************************************************)
(* datetime, as far as generate_calendar.py uses it.  A datetime is a      *)
(* record [Y, m, d, H, M, S]; the parse fails with the no-value sentinel   *)
(* NoDatetime.  The date strings of the model keep every instant within    *)
(* the years datetime can hold (1..9999).                                  *)
(***************************************************************************)
NoDatetime == [Y |-> 0, m |-> 0, d |-> 0, H |-> 0, M |-> 0, S |-> 0]

IsLeap(y) == y % 4 = 0 /\ (y % 100 # 0 \/ y % 400 = 0)

DaysInMonth(y, m) ==
  IF m = 2 THEN (IF IsLeap(y) THEN 29 ELSE 28)
  ELSE IF m \in {4, 6, 9, 11} THEN 30 ELSE 31

RECURSIVE DaysBeforeMonth(_, _)
DaysBeforeMonth(y, m) ==
  IF m = 1 THEN 0 ELSE DaysBeforeMonth(y, m - 1) + DaysInMonth(y, m - 1)

DaysBeforeYear(y) ==
  (y - 1) * 365 + ((y - 1) \div 4) - ((y - 1) \div 100) + ((y - 1) \div 400)

\* datetime.toordinal(): the proleptic Gregorian ordinal, 0001-01-01 is day 1
ToOrdinal(y, m, d) == DaysBeforeYear(y) + DaysBeforeMonth(y, m) + d

\* date.fromordinal(n): the date of ordinal n
FromOrdinal(n) ==
  LET y == CHOOSE yy \in (n \div 366)..((n \div 365) + 1) :
             DaysBeforeYear(yy) < n /\ n <= DaysBeforeYear(yy + 1)
      r == n - DaysBeforeYear(y)
      m == CHOOSE mm \in 1..12 :
             DaysBeforeMonth(y, mm) < r
             /\ r <= DaysBeforeMonth(y, mm) + DaysInMonth(y, mm)
  IN  [Y |-> y, m |-> m, d |-> r - DaysBeforeMonth(y, m)]

\* dt + timedelta(seconds=secs), secs of either sign: datetime.__add__
\* normalises (ordinal days, seconds of the day) and rebuilds the fields
AddSeconds(dt, secs) ==
  LET total == dt.H * 3600 + dt.M * 60 + dt.S + secs
      days == ToOrdinal(dt.Y, dt.m, dt.d) + (total \div 86400)
      rem == total % 86400
      date == FromOrdinal(days)
  IN  [Y |-> date.Y, m |-> date.m, d |-> date.d,
       H |-> rem \div 3600, M |-> (rem % 3600) \div 60, S |-> rem % 60]

\* one field of strptime's pattern: %m is 1[0-2]|0[1-9]|[1-9], %d is
\* 3[0-1]|[1-2]\d|0[1-9]|[1-9]| [1-9], %H is 2[0-3]|[0-1]\d|\d, %M is
\* [0-5]\d|\d and %S is 6[0-1]|[0-5]\d|\d: one or two digits in a range
\* (a day may also be a space and a digit)
FieldOk(f, lo, hi, spaceOk) ==
  LET g == IF spaceOk /\ Len(f) = 2 /\ Head(f) = " " THEN Tail(f) ELSE f
  IN  /\ Len(f) \in {1, 2}
      /\ AllDigits(g)
      /\ NatVal(g) >= lo
      /\ NatVal(g) <= hi

FieldVal(f) == IF Head(f) = " " THEN NatVal(Tail(f)) ELSE NatVal(f)

\* the ways to cut s into the fields of "%Y-%m-%dT%H:%M:%S": the widths
\* <<wm, wd, wH, wM, wS>> of the five fields after the 4-digit year (the
\* pattern is matched ignoring case, so the T may be a t)
StrptimeCuts(s) ==
  { w \in [1..5 -> {1, 2}] :
      LET pm == 6
          pd == pm + w[1] + 1
          pH == pd + w[2] + 1
          pM == pH + w[3] + 1
          pS == pM + w[4] + 1
      IN  /\ Len(s) = pS + w[5] - 1
          /\ AllDigits(SubSeq(s, 1, 4))
          /\ Chr(s, 5) = "-"
          /\ Chr(s, pd - 1) = "-"
          /\ Chr(s, pH - 1) \in {"T", "t"}
          /\ Chr(s, pM - 1) = ":"
          /\ Chr(s, pS - 1) = ":"
          /\ FieldOk(SubSeq(s, pm, pd - 2), 1, 12, FALSE)
          /\ FieldOk(SubSeq(s, pd, pH - 2), 1, 31, TRUE)
          /\ FieldOk(SubSeq(s, pH, pM - 2), 0, 23, FALSE)
          /\ FieldOk(SubSeq(s, pM, pS - 2), 0, 59, FALSE)
          /\ FieldOk(SubSeq(s, pS, Len(s)), 0, 61, FALSE) }

\* datetime.strptime(s, "%Y-%m-%dT%H:%M:%S"): NoDatetime stands for the
\* ValueError of a string that does not match, or matches fields that are
\* no date (year 0, February 30th, second 60)
Strptime(s) ==
  IF Len(s) < 14 \/ Len(s) > 19 \/ StrptimeCuts(s) = {} THEN NoDatetime
  ELSE LET w == CHOOSE c \in StrptimeCuts(s) : TRUE
           pd == 7 + w[1]
           pH == pd + w[2] + 1
           pM == pH + w[3] + 1
           pS == pM + w[4] + 1
           y == NatVal(SubSeq(s, 1, 4))
           m == FieldVal(SubSeq(s, 6, pd - 2))
           d == FieldVal(SubSeq(s, pd, pH - 2))
           S == FieldVal(SubSeq(s, pS, Len(s)))
       IN  IF y < 1 \/ d > DaysInMonth(y, m) \/ S > 59 THEN NoDatetime
           ELSE [Y |-> y, m |-> m, d |-> d,
                 H |-> FieldVal(SubSeq(s, pH, pM - 2)),
                 M |-> FieldVal(SubSeq(s, pM, pS - 2)), S |-> S]

\* the sign read from the first character of the offset
TzSign(tz_str) == IF Head(tz_str) = "+" THEN 1 ELSE -1

\* dt + offset: the offset applied in the wrong direction
ToUtcAdded(dt, offset) == AddSeconds(dt, offset)

\* dt - offset
ToUtc(dt, offset) == AddSeconds(dt, -offset)

\* parse_race_datetime(date_str): the datetime, or NoDatetime for None
parse_race_datetime(date_str) ==
  IF date_str = "" THEN NoDatetime
  ELSE IF Len(date_str) > 19
  THEN LET dt_str == PySlice(date_str, 0, 19)
           tz_str == SubSeq(date_str, 20, Len(date_str))
           dt == Strptime(dt_str)
           hh == PySlice(tz_str, 1, 3)
           mm == PySlice(tz_str, 3, 5)
       IN  IF dt = NoDatetime THEN NoDatetime
           ELSE IF ~IntOk(hh) THEN NoDatetime
           ELSE IF Len(tz_str) >= 5 /\ ~IntOk(mm) THEN NoDatetime
           ELSE LET tz_hours == IntVal(hh)
                    tz_mins == IF Len(tz_str) >= 5 THEN IntVal(mm) ELSE 0
                    offset == (tz_hours * 3600 + tz_mins * 60) * TzSign(tz_str)
                IN  ToUtc(dt, offset)
  ELSE Strptime(date_str)

Pad2(n) == IF n < 10 THEN "0" \o NatStr(n) ELSE NatStr(n)

\* format_ics_datetime(dt): strftime("%Y%m%dT%H%M%SZ") (years 1000..9999)
format_ics_datetime(dt) ==
  NatStr(dt.Y) \o Pad2(dt.m) \o Pad2(dt.d) \o "T"
    \o Pad2(dt.H) \o Pad2(dt.M) \o Pad2(dt.S) \o "Z"


(***************************************************************************)
(* The state.  Each specification below runs one part of the program and   *)
(* leaves the variables of the other parts at their idle values.           *)
(***************************************************************************)
VARIABLES
  \* generate_ics_calendar: the list read from the schedule file, the number
  \* of its records the loop has passed, the locals of the loop, the file
  \* written and the value returned; origin[k] is the index in races of the
  \* record the k-th emitted VEVENT was made from (a history variable)
  races, idx, ics_lines, added_events, event_count, output_file, returned,
  origin, epc,
  \* main of scrape_nascar.py: the number of series passed, the three
  \* collections, the output document; feeds[k] is what the fetch of the
  \* k-th series returned (a history variable)
  spos, all_schedules, all_races_flat, all_tracks, output, feeds, mpc,
  \* one call of a pure function: its argument, its result, whether it ran
  arg, res, called

emitVars == <<races, idx, ics_lines, added_events, event_count, output_file,
              returned, origin, epc>>
mainVars == <<spos, all_schedules, all_races_flat, all_tracks, output, feeds,
              mpc>>
fnVars == <<arg, res, called>>
vars == <<emitVars, mainVars, fnVars>>

EmitIdle ==
  /\ races = <<>> /\ idx = 0 /\ ics_lines = <<>> /\ added_events = {}
  /\ event_count = 0 /\ output_file = <<>> /\ returned = -1
  /\ origin = <<>> /\ epc = "idle"

MainIdle ==
  /\ spos = 0 /\ all_schedules = <<>> /\ all_races_flat = <<>>
  /\ all_tracks = <<>> /\ output = <<>> /\ feeds = <<>> /\ mpc = "idle"

FnIdle == arg = "" /\ res = "" /\ called = FALSE

(***************************************************************************)
(* generate_calendar.py                                                    *)
(***************************************************************************)
\* hashlib.md5(s.encode()).hexdigest()[:16]: the digest is not computed; it
\* is a value that differs for different strings
Md5Hex16(s) == "md5[" \o s \o "]"

generate_uid(race_id, series) ==
  LET unique_string == PyStr(race_id) \o "-" \o PyStr(series)
  IN  Md5Hex16(unique_string) \o "@nascar-scraper"

EscapeBackslashLast(text) ==
  IF text = "" THEN ""
  ELSE Replace(Replace(Replace(Replace(text, ";", "\\;"), ",", "\\,"),
                       "\n", "\\n"), "\\", "\\\\")

escape_ics_text(text) ==
  IF text = "" THEN ""
  ELSE Replace(Replace(Replace(Replace(text, "\\", "\\\\"), ";", "\\;"),
                       ",", "\\,"), "\n", "\\n")

RECURSIVE Join(_, _)
\* sep.join(parts)
Join(parts, sep) ==
  IF parts = <<>> THEN ""
  ELSE IF Len(parts) = 1 THEN parts[1]
  ELSE parts[1] \o sep \o Join(Tail(parts), sep)

\* the "" create_ics_event returns for a record it makes no event of
NoEvent == [kind |-> "none"]

\* the list of optional description lines: each is there when its value is
\* truthy
OptionalPart(value, text) == IF Truthy(value) THEN <<text>> ELSE <<>>

\* the DESCRIPTION value
DescriptionUnescaped(desc_parts) == Join(desc_parts, "\\n")

create_ics_event(race, series_name) ==
  LET race_name == GetOr(race, "race_name", PyS("NASCAR Race"))
      track_name == GetOr(race, "track_name", PyS(""))
      state == GetOr(race, "state", PyS(""))
      date_str == GetOr(race, "date", PyS(""))
      start_time == GetOr(race, "start_time", PyS(""))
      scheduled_laps == GetOr(race, "scheduled_laps", PyS(""))
      tv_network == GetOr(race, "tv_network", PyS(""))
      radio == GetOr(race, "radio", PyS(""))
      streaming == GetOr(race, "streaming", PyS(""))
      race_url == GetOr(race, "race_url", PyS(""))
      race_id == GetOr(race, "race_id", PyI(0))
      dt == IF Truthy(date_str) THEN parse_race_datetime(date_str.v)
            ELSE NoDatetime
      end_dt == AddSeconds(dt, 4 * 3600)
      location == IF Truthy(track_name)
                  THEN PyStr(track_name) \o ", " \o PyStr(state) ELSE ""
      desc_parts ==
        << "Series: " \o PyStr(series_name),
           "Track: " \o PyStr(track_name) >>
        \o OptionalPart(scheduled_laps, "Laps: " \o PyStr(scheduled_laps))
        \o OptionalPart(start_time,
                        "Start Time: " \o PyStr(start_time) \o " (local)")
        \o OptionalPart(tv_network, "TV: " \o PyStr(tv_network))
        \o OptionalPart(radio, "Radio: " \o PyStr(radio))
        \o OptionalPart(streaming, "Streaming: " \o PyStr(streaming))
        \o (IF Truthy(race_url)
            THEN <<"", "More info: " \o PyStr(race_url)>> ELSE <<>>)
  IN  IF dt = NoDatetime THEN NoEvent
      ELSE [kind |-> "VEVENT",
            UID |-> generate_uid(race_id, series_name),
            DTSTART |-> format_ics_datetime(dt),
            DTEND |-> format_ics_datetime(end_dt),
            SUMMARY |-> escape_ics_text(PyStr(race_name) \o " ("
                                        \o PyStr(series_name) \o ")"),
            LOCATION |-> escape_ics_text(location),
            DESCRIPTION |-> DescriptionUnescaped(desc_parts),
            URL |-> IF Truthy(race_url) THEN <<PyStr(race_url)>> ELSE <<>>]

\* one line of the calendar that is no VEVENT
Line(text) == [kind |-> "line", text |-> text]

IcsHeader ==
  << Line("BEGIN:VCALENDAR"), Line("VERSION:2.0"),
     Line("PRODID:-//NASCAR Scraper//nascar-scraper//EN"),
     Line("CALSCALE:GREGORIAN"), Line("METHOD:PUBLISH"),
     Line("X-WR-CALNAME:2026 NASCAR Schedule"),
     Line("X-WR-TIMEZONE:America/New_York") >>

EventKeyById(race) == PyStr(Get(race, "race_id"))

\* event_key of the emission loop
EventKey(race) ==
  PyStr(Get(race, "race_id")) \o "-" \o PyStr(GetOr(race, "series", PyS("")))

\* one pass of the loop over races: a record whose key was added is skipped
SkipDuplicate ==
  /\ epc = "loop" /\ idx < Len(races)
  /\ EventKey(races[idx + 1]) \in added_events
  /\ idx' = idx + 1
  /\ UNCHANGED <<races, ics_lines, added_events, event_count, output_file,
                 returned, origin, epc>>
  /\ UNCHANGED <<mainVars, fnVars>>

\* one pass of the loop: create_ics_event returned "" (no parseable date)
SkipNoEvent ==
  /\ epc = "loop" /\ idx < Len(races)
  /\ EventKey(races[idx + 1]) \notin added_events
  /\ create_ics_event(races[idx + 1],
                      GetOr(races[idx + 1], "series", PyS(""))) = NoEvent
  /\ idx' = idx + 1
  /\ UNCHANGED <<races, ics_lines, added_events, event_count, output_file,
                 returned, origin, epc>>
  /\ UNCHANGED <<mainVars, fnVars>>

\* one pass of the loop: the event is appended, its key added and counted
EmitEvent ==
  /\ epc = "loop" /\ idx < Len(races)
  /\ EventKey(races[idx + 1]) \notin added_events
  /\ LET event == create_ics_event(races[idx + 1],
                                   GetOr(races[idx + 1], "series", PyS("")))
     IN  /\ event # NoEvent
         /\ ics_lines' = Append(ics_lines, event)
  /\ added_events' = added_events \cup {EventKey(races[idx + 1])}
  /\ event_count' = event_count + 1
  /\ origin' = Append(origin, idx + 1)
  /\ idx' = idx + 1
  /\ UNCHANGED <<races, output_file, returned, epc>>
  /\ UNCHANGED <<mainVars, fnVars>>

\* after the loop: the footer, the file, the return
WriteCalendar ==
  /\ epc = "loop" /\ idx = Len(races)
  /\ ics_lines' = Append(ics_lines, Line("END:VCALENDAR"))
  /\ output_file' = ics_lines'
  /\ returned' = event_count
  /\ epc' = "done"
  /\ UNCHANGED <<races, idx, added_events, event_count, origin>>
  /\ UNCHANGED <<mainVars, fnVars>>


\* the sequences over S of length at most n
SeqUpTo(S, n) == UNION { [1..k -> S] : k \in 0..n }

\* The records generate_ics_calendar is run on.  The fields that no loop
\* decision reads come in four variants: a complete record and a record
\* with other values throughout (punctuation in its texts, no track, no
\* laps, a URL), each under both series; a record with no date yet and a
\* record whose offset sign is not a sign, under the first series.
DatedVariants ==
  { [race_name |-> PyS("Daytona 500"),
     track_name |-> PyS("Daytona International Speedway"),
     state |-> PyS("FL"), date |-> PyS("2026-02-15T14:30:00-0500"),
     start_time |-> PyS("2:30 PM"), scheduled_laps |-> PyI(200),
     tv_network |-> PyS("FOX"), radio |-> PyS("MRN"),
     streaming |-> PyS(""), race_url |-> PyS("")],
    [race_name |-> PyS("Race, Inc.; Finals"), track_name |-> PyS(""),
     state |-> PyS(""), date |-> PyS("2026-03-01T10:00:00+0000"),
     start_time |-> PyS(""), scheduled_laps |-> PyNone,
     tv_network |-> PyS("FOX, FS1"), radio |-> PyS(""),
     streaming |-> PyS("Max"), race_url |-> PyS("https://nascar.com/r/1")] }

OddVariants ==
  { [race_name |-> PyS("Clash"), track_name |-> PyS("Bowman Gray"),
     state |-> PyS("NC"), date |-> PyS(""),
     start_time |-> PyS(""), scheduled_laps |-> PyI(0),
     tv_network |-> PyS(""), radio |-> PyS(""),
     streaming |-> PyS(""), race_url |-> PyS("")],
    [race_name |-> PyS("Duel"), track_name |-> PyS("Daytona"),
     state |-> PyS("FL"), date |-> PyS("2026-02-15T14:30:00 0500"),
     start_time |-> PyS(""), scheduled_laps |-> PyI(60),
     tv_network |-> PyS("FS1"), radio |-> PyS(""),
     streaming |-> PyS(""), race_url |-> PyS("")] }

\* a variant under a series
InSeries ==
  { v @@ ("series" :> PyS(sn)) :
      v \in DatedVariants, sn \in {"NASCAR Cup Series", "NASCAR Xfinity Series"} }
  \cup { v @@ ("series" :> PyS("NASCAR Cup Series")) : v \in OddVariants }

\* a record of the schedule file: with a race_id that is null, 0 or 5123,
\* or with no race_id key at all
EmitterRaces ==
  { r @@ ("race_id" :> id) : r \in InSeries, id \in {PyNone, PyI(0), PyI(5123)} }
  \cup InSeries

EmitterInit ==
  /\ races \in SeqUpTo(EmitterRaces, MaxRaces)
  /\ idx = 0
  /\ ics_lines = IcsHeader
  /\ added_events = {}
  /\ event_count = 0
  /\ output_file = <<>>
  /\ returned = -1
  /\ origin = <<>>
  /\ epc = "loop"
  /\ MainIdle /\ FnIdle

EmitterNext == SkipDuplicate \/ SkipNoEvent \/ EmitEvent \/ WriteCalendar

\* generate_ics_calendar on every list of at most MaxRaces records
EmitterSpec == EmitterInit /\ [][EmitterNext]_vars


(***************************************************************************)
(* Claims about generate_ics_calendar (EmitterSpec).                       *)
(***************************************************************************)
\* the (race identifier, series) pair of a record, as the loop reads it
Pair(race) == <<Get(race, "race_id"), GetOr(race, "series", PyS(""))>>

\* the record has a date parse_race_datetime accepts
HasParseableDate(race) ==
  LET date_str == GetOr(race, "date", PyS(""))
  IN  Truthy(date_str) /\ parse_race_datetime(date_str.v) # NoDatetime

\* the VEVENT blocks of a list of calendar lines, in order
VEvents(lines) == SelectSeq(lines, LAMBDA b : b.kind = "VEVENT")

\* the number of VEVENT blocks made from a record with the pair p
EmittedFor(p) ==
  Cardinality({ k \in 1..Len(origin) : Pair(races[origin[k]]) = p })

ExpectedShape(s) ==
  /\ Len(s) \in {19, 24}
  /\ \A i \in {1, 2, 3, 4, 6, 7, 9, 10, 12, 13, 15, 16, 18, 19} :
       IsDigit(Chr(s, i))
  /\ Chr(s, 5) = "-" /\ Chr(s, 8) = "-" /\ Chr(s, 11) = "T"
  /\ Chr(s, 14) = ":" /\ Chr(s, 17) = ":"
  /\ Len(s) = 24 =>
       /\ Chr(s, 20) \in {"+", "-"}
       /\ AllDigits(SubSeq(s, 21, 24))

\* C3: no VEVENT is made from a record whose date string is empty or does
\* not have the expected shape, and such a record is not counted.
C3_UnshapedDateNeverEmitted ==
  /\ \A k \in 1..Len(origin) :
       LET date_str == GetOr(races[origin[k]], "date", PyS(""))
       IN  IsStr(date_str) /\ ExpectedShape(date_str.v)
  /\ event_count = Len(origin)

\* the number of backslashes that stand immediately before position i of s
BackslashesBefore(s, i) ==
  CHOOSE n \in 0..(i - 1) :
    /\ \A j \in (i - n)..(i - 1) : Chr(s, j) = "\\"
    /\ (n < i - 1 => Chr(s, i - n - 1) # "\\")

\* an iCalendar TEXT value with nothing left unescaped: every backslash
\* that starts an escape starts one of \\ \; \, \n \N, and every ';', ','
\* and newline follows a backslash that escapes it
WellEscaped(s) ==
  \A i \in 1..Len(s) :
    LET escaped == BackslashesBefore(s, i) % 2 = 1
    IN  /\ Chr(s, i) \in {";", ","} => escaped
        /\ Chr(s, i) # "\n"
        /\ (Chr(s, i) = "\\" /\ ~escaped) =>
             (i < Len(s) /\ Chr(s, i + 1) \in {"\\", ";", ",", "n", "N"})
        /\ escaped => Chr(s, i) \in {"\\", ";", ",", "n", "N"}

\* C4: in every emitted VEVENT the SUMMARY, LOCATION and DESCRIPTION values
\* carry no unescaped backslash, semicolon, comma or newline.
C4_TextFieldsEscaped ==
  \A k \in 1..Len(VEvents(ics_lines)) :
    LET e == VEvents(ics_lines)[k]
    IN  /\ WellEscaped(e.SUMMARY)
        /\ WellEscaped(e.LOCATION)
        /\ WellEscaped(e.DESCRIPTION)

\* C10: no two VEVENT blocks of the calendar carry the same UID.
C10_UniqueUids ==
  \A j, k \in 1..Len(VEvents(ics_lines)) :
    j # k => VEvents(ics_lines)[j].UID # VEvents(ics_lines)[k].UID


(***************************************************************************)
(* scrape_nascar.py                                                        *)
(***************************************************************************)
\* SERIES_CONFIG, in the order the loop of main passes its items
SeriesKeys == <<"nascar_cup_series", "xfinity_series", "craftsman_truck_series">>

SERIES_CONFIG ==
  [nascar_cup_series |-> [name |-> "NASCAR Cup Series", series_id |-> 1],
   xfinity_series |-> [name |-> "NASCAR Xfinity Series", series_id |-> 2],
   craftsman_truck_series |->
     [name |-> "NASCAR Craftsman Truck Series", series_id |-> 3]]

CleanNoStrip(value) == IF value = PyNone THEN "" ELSE PyStr(value)

clean_string(value) == IF value = PyNone THEN "" ELSE Strip(PyStr(value))

\* the (canonical key, raw key) pairs of the fields extract_race_info cleans
RaceTextFields ==
  { <<"race_name", "Race_Name">>, <<"track_name", "Track_Name">>,
    <<"state", "Race_State">>, <<"date", "Race_Date">>,
    <<"date_plain", "Race_Date_Plain">>, <<"start_time", "Race_Start">>,
    <<"qualifying_date", "Qualifying_Date">>,
    <<"playoff_round", "Playoff_Round">>, <<"tv_network", "Race_TV">>,
    <<"radio", "Race_Radio">>, <<"streaming", "Race_Live_Stream">>,
    <<"in_car_camera", "Race_In_Car">>, <<"tickets_url", "Race_Tickets">>,
    <<"race_url", "Race_URL">>,
    <<"previous_winner", "Previous_Winner_Name">> }

\* the (canonical key, raw key) pairs of the fields it passes through
RaceNumericFields ==
  { <<"race_id", "Race_Id">>, <<"track_id", "Track_Id">>,
    <<"scheduled_laps", "Scheduled_Laps">>, <<"actual_laps", "Actual_Laps">> }

extract_race_info(race) ==
  [race_name |-> PyS(clean_string(Get(race, "Race_Name"))),
   race_id |-> Get(race, "Race_Id"),
   track_name |-> PyS(clean_string(Get(race, "Track_Name"))),
   track_id |-> Get(race, "Track_Id"),
   state |-> PyS(clean_string(Get(race, "Race_State"))),
   date |-> PyS(clean_string(Get(race, "Race_Date"))),
   date_plain |-> PyS(clean_string(Get(race, "Race_Date_Plain"))),
   start_time |-> PyS(clean_string(Get(race, "Race_Start"))),
   scheduled_laps |-> Get(race, "Scheduled_Laps"),
   actual_laps |-> Get(race, "Actual_Laps"),
   qualifying_date |-> PyS(clean_string(Get(race, "Qualifying_Date"))),
   playoff_round |-> PyS(clean_string(Get(race, "Playoff_Round"))),
   tv_network |-> PyS(clean_string(Get(race, "Race_TV"))),
   radio |-> PyS(clean_string(Get(race, "Race_Radio"))),
   streaming |-> PyS(clean_string(Get(race, "Race_Live_Stream"))),
   in_car_camera |-> PyS(clean_string(Get(race, "Race_In_Car"))),
   tickets_url |-> PyS(clean_string(Get(race, "Race_Tickets"))),
   race_url |-> PyS(clean_string(Get(race, "Race_URL"))),
   previous_winner |-> PyS(clean_string(Get(race, "Previous_Winner_Name")))]

extract_track_info(race) ==
  [track_id |-> Get(race, "Track_Id"),
   track_name |-> PyS(clean_string(Get(race, "Track_Name"))),
   alt_track_name |-> PyS(clean_string(Get(race, "Alt_Track_Name"))),
   state |-> PyS(clean_string(Get(race, "Race_State"))),
   track_page_url |-> PyS(clean_string(Get(race, "Track_Page_URL"))),
   track_image_url |-> PyS(clean_string(Get(race, "Track_Image_URL"))),
   track_background_image_url |->
     PyS(clean_string(Get(race, "Track_Background_Image_URL")))]

\* the characters of the model's sort keys, in code point order
CodePointOrder ==
  " -0123456789:ABCDEFGHIJKLMNOPQRSTUVWXYZabcdefghijklmnopqrstuvwxyz"

CodePoint(c) == CHOOSE i \in 1..Len(CodePointOrder) : Chr(CodePointOrder, i) = c

RECURSIVE StrLess(_, _)
\* a < b on str: by the first character that differs, a prefix being less
StrLess(a, b) ==
  IF b = "" THEN FALSE
  ELSE IF a = "" THEN TRUE
  ELSE IF Head(a) = Head(b) THEN StrLess(Tail(a), Tail(b))
  ELSE CodePoint(Head(a)) < CodePoint(Head(b))

RECURSIVE InsertByKey(_, _, _)
\* x put into the sorted list after every element whose key is not greater
InsertByKey(sorted, x, key) ==
  IF sorted = <<>> THEN <<x>>
  ELSE IF StrLess(x[key].v, Head(sorted)[key].v) THEN <<x>> \o sorted
  ELSE <<Head(sorted)>> \o InsertByKey(Tail(sorted), x, key)

RECURSIVE SortedByKey(_, _)
\* list.sort(key=lambda x: x[key]): ascending and stable
SortedByKey(list, key) ==
  IF list = <<>> THEN <<>>
  ELSE InsertByKey(SortedByKey(SubSeq(list, 1, Len(list) - 1), key),
                   list[Len(list)], key)

NoSort(list) == list

\* races.sort(key=lambda x: x["date_plain"]), and the same of the flat list
SortByDatePlain(list) == SortedByKey(list, "date_plain")

\* track_id in all_tracks: the dict is the list of its values in insertion
\* order, each value holding its key in track_id
HasTrack(tracks, track_id) ==
  \E i \in 1..Len(tracks) : tracks[i].track_id = track_id

TrackStepLastWins(tracks, race) ==
  LET track_id == Get(race, "Track_Id")
  IN  IF Truthy(track_id)
      THEN IF HasTrack(tracks, track_id)
           THEN [i \in 1..Len(tracks) |->
                   IF tracks[i].track_id = track_id
                   THEN extract_track_info(race) ELSE tracks[i]]
           ELSE Append(tracks, extract_track_info(race))
      ELSE tracks

\* one pass of the loop that fills all_tracks
TrackStep(tracks, race) ==
  LET track_id == Get(race, "Track_Id")
  IN  IF Truthy(track_id) /\ ~HasTrack(tracks, track_id)
      THEN Append(tracks, extract_track_info(race))
      ELSE tracks

RECURSIVE AddTracks(_, _)
\* the loop over raw_races that fills all_tracks
AddTracks(tracks, raw_races) ==
  IF raw_races = <<>> THEN tracks
  ELSE AddTracks(TrackStep(tracks, Head(raw_races)), Tail(raw_races))

\* race.copy() with the series name and key set
WithSeries(race, series_key) ==
  [k \in (DOMAIN race) \cup {"series", "series_key"} |->
     IF k = "series" THEN PyS(SERIES_CONFIG[series_key].name)
     ELSE IF k = "series_key" THEN PyS(series_key) ELSE race[k]]

RECURSIVE FlatAppendDedup(_, _, _)
FlatAppendDedup(flat, sorted_races, series_key) ==
  IF sorted_races = <<>> THEN flat
  ELSE LET r == WithSeries(Head(sorted_races), series_key)
           seen == \E i \in 1..Len(flat) :
                     /\ flat[i].race_id = r.race_id
                     /\ flat[i].series = r.series
       IN  FlatAppendDedup(IF seen THEN flat ELSE Append(flat, r),
                           Tail(sorted_races), series_key)

\* the loop that adds the races of one series to all_races_flat
FlatAppend(flat, sorted_races, series_key) ==
  flat \o [i \in 1..Len(sorted_races) |->
             WithSeries(sorted_races[i], series_key)]

\* sorted(all_tracks.values(), key=lambda x: x["track_name"])
TracksList(tracks) == SortedByKey(tracks, "track_name")

\* one pass of the loop of main over a series whose fetch gave races
SeriesFetched(raw_races) ==
  /\ mpc = "loop" /\ spos < Len(SeriesKeys)
  /\ raw_races # <<>>
  /\ LET series_key == SeriesKeys[spos + 1]
         config == SERIES_CONFIG[series_key]
         sorted_races ==
           SortByDatePlain([i \in 1..Len(raw_races) |->
                              extract_race_info(raw_races[i])])
     IN  /\ all_tracks' = AddTracks(all_tracks, raw_races)
         /\ all_schedules' =
              [k \in (DOMAIN all_schedules) \cup {series_key} |->
                 IF k = series_key
                 THEN [series_name |-> config.name,
                       series_id |-> config.series_id,
                       total_races |-> Len(sorted_races),
                       races |-> sorted_races]
                 ELSE all_schedules[k]]
         /\ all_races_flat' = FlatAppend(all_races_flat, sorted_races, series_key)
  /\ feeds' = Append(feeds, [schedule_data |-> TRUE, raw_races |-> raw_races])
  /\ spos' = spos + 1
  /\ UNCHANGED <<output, mpc>>
  /\ UNCHANGED <<emitVars, fnVars>>

\* one pass of the loop over a series whose fetch gave no data (whatever
\* races an earlier response left behind), or data with no races in it
SeriesFailed(schedule_data, raw_races) ==
  /\ mpc = "loop" /\ spos < Len(SeriesKeys)
  /\ ~(schedule_data /\ raw_races # <<>>)
  /\ LET series_key == SeriesKeys[spos + 1]
         config == SERIES_CONFIG[series_key]
     IN  all_schedules' =
           [k \in (DOMAIN all_schedules) \cup {series_key} |->
              IF k = series_key
              THEN [series_name |-> config.name,
                    series_id |-> config.series_id,
                    error |-> "Failed to fetch data"]
              ELSE all_schedules[k]]
  /\ feeds' = Append(feeds, [schedule_data |-> schedule_data,
                             raw_races |-> raw_races])
  /\ spos' = spos + 1
  /\ UNCHANGED <<all_races_flat, all_tracks, output, mpc>>
  /\ UNCHANGED <<emitVars, fnVars>>

\* after the loop: the flat list is sorted and the documents are written
WriteOutput ==
  /\ mpc = "loop" /\ spos = Len(SeriesKeys)
  /\ all_races_flat' = SortByDatePlain(all_races_flat)
  /\ output' = [schedules_by_series |-> all_schedules,
                all_races_chronological |-> all_races_flat',
                tracks |-> TracksList(all_tracks)]
  /\ mpc' = "done"
  /\ UNCHANGED <<spos, all_schedules, all_tracks, feeds>>
  /\ UNCHANGED <<emitVars, fnVars>>


\* d with d[k] = v
Put(d, k, v) == [x \in (DOMAIN d) \cup {k} |-> IF x = k THEN v ELSE d[x]]

\* d without the key k
Drop(d, k) == [x \in (DOMAIN d) \ {k} |-> d[x]]

\* The raw records the fetches return: a race; the same race again with
\* other values (an earlier date, another alternate name of the same
\* track); a race at a track with identifier 0; a record with next to
\* nothing in it.
RawRaces ==
  { [Race_Id |-> PyI(5123), Race_Name |-> PyS(" Daytona 500 "),
     Track_Id |-> PyI(105), Track_Name |-> PyS("Daytona"),
     Alt_Track_Name |-> PyS("DIS"), Race_State |-> PyS("FL"),
     Race_Date |-> PyS("2026-02-15T14:30:00-0500"),
     Race_Date_Plain |-> PyS("2026-02-15 14:30:00"),
     Scheduled_Laps |-> PyI(200)],
    [Race_Id |-> PyI(5123), Race_Name |-> PyS("Daytona 500"),
     Track_Id |-> PyI(105), Track_Name |-> PyS("Daytona Intl"),
     Alt_Track_Name |-> PyNone, Race_State |-> PyS("FL "),
     Race_Date |-> PyS("2026-02-12T19:00:00-0500"),
     Race_Date_Plain |-> PyS("2026-02-12 19:00:00"),
     Scheduled_Laps |-> PyNone],
    [Race_Id |-> PyI(5200), Race_Name |-> PyS("Clash"),
     Track_Id |-> PyI(0), Track_Name |-> PyS("Bowman Gray"),
     Race_Date_Plain |-> PyS("2026-02-01 20:00:00")],
    [Race_Id |-> PyNone, Track_Id |-> PyI(7), Track_Name |-> PyS("Atlanta")] }

RECURSIVE RawCount(_)
\* the number of raw records in what a list of fetches returned
RawCount(fetched) ==
  IF fetched = <<>> THEN 0
  ELSE Len(Head(fetched).raw_races) + RawCount(Tail(fetched))

\* the raw records the fetches have returned so far
RawSoFar == RawCount(feeds)

MainInit ==
  /\ spos = 0
  /\ all_schedules = <<>>
  /\ all_races_flat = <<>>
  /\ all_tracks = <<>>
  /\ output = <<>>
  /\ feeds = <<>>
  /\ mpc = "loop"
  /\ EmitIdle /\ FnIdle

MainNext ==
  \/ \E raw_races \in SeqUpTo(RawRaces, MaxRaw - RawSoFar) :
       SeriesFetched(raw_races)
  \/ \E schedule_data \in BOOLEAN :
       \E raw_races \in SeqUpTo(RawRaces, MaxRaw - RawSoFar) :
         SeriesFailed(schedule_data, raw_races)
  \/ WriteOutput

\* main of scrape_nascar.py on every outcome of the three fetches that
\* returns at most MaxRaw raw records in all
MainSpec == MainInit /\ [][MainNext]_vars

(***************************************************************************)
(* The pure functions, each called once on an argument of a bounded set.   *)
(***************************************************************************)
EscapeAlphabet == {"\\", ";", ",", "\n", "n", "a"}

RECURSIVE TextsUpTo(_)
\* the texts of at most n characters of EscapeAlphabet
TextsUpTo(n) ==
  IF n = 0 THEN {""}
  ELSE TextsUpTo(n - 1)
         \cup { t \o c : t \in TextsUpTo(n - 1), c \in EscapeAlphabet }

EscapeTexts == TextsUpTo(MaxLen) \cup {"Race, Inc.; Finals"}

EscapeInit ==
  /\ arg \in EscapeTexts /\ res = "" /\ called = FALSE
  /\ EmitIdle /\ MainIdle

EscapeCall ==
  /\ ~called
  /\ res' = escape_ics_text(arg)
  /\ called' = TRUE
  /\ UNCHANGED <<arg, emitVars, mainVars>>

\* escape_ics_text on every text of EscapeTexts
EscapeSpec == EscapeInit /\ [][EscapeCall]_vars

DateParts ==
  { "2026-02-15T14:30:00", "2026-03-01T10:00:00", "2026-12-31T23:30:00",
    "2024-02-29T01:00:00", "2026-01-01T00:15:00", "2028-02-28T21:59:59",
    "2026-02-30T14:30:00", "2026-13-01T10:00:00", "2026-02-15T24:00:00",
    "2026-2-15T14:30:00", "2026-02-15 14:30:00", "2026-02-15t14:30:00",
    "0000-02-15T14:30:00", "TBD", "" }

TzParts ==
  { "", "-0500", "+0000", "+0530", "-0445", "+1400", "-05", "+09",
    " 0500", "Z", "-05:00", "-050", "+05x0", "-0500xyz", "-", "-5" }

DateStrings == { d \o z : d \in DateParts, z \in TzParts }

ParseInit ==
  /\ arg \in DateStrings /\ res = "" /\ called = FALSE
  /\ EmitIdle /\ MainIdle

ParseCall ==
  /\ ~called
  /\ LET dt == parse_race_datetime(arg)
     IN  res' = [dt |-> dt,
                 ics |-> IF dt = NoDatetime THEN ""
                         ELSE format_ics_datetime(dt)]
  /\ called' = TRUE
  /\ UNCHANGED <<arg, emitVars, mainVars>>

\* parse_race_datetime, and format_ics_datetime of what it returns, on
\* every string of DateStrings
ParseSpec == ParseInit /\ [][ParseCall]_vars

\* the raw keys extract_race_info reads
RawTextKeys == { f[2] : f \in RaceTextFields }

RawNumericKeys == { f[2] : f \in RaceNumericFields }

\* what a raw record holds under a key: a value, or nothing (no such key)
Absent == [present |-> FALSE, value |-> PyNone]

Holding(values) == { [present |-> TRUE, value |-> v] : v \in values }

RawTextValues ==
  { PyNone, PyS(""), PyS("FOX"), PyS("  Daytona 500 \n"), PyS(" \t "),
    PyI(42) }

RawNumericValues == { PyNone, PyI(0), PyI(267), PyS("12 ") }

\* the two records the raw records of ExtractSpec are made from: one with
\* no key, one with a value under every key
RawBases ==
  { <<>>,
    [k \in RawTextKeys \cup RawNumericKeys |->
       IF k \in RawTextKeys THEN PyS("x") ELSE PyI(1)] }

\* d with the key k holding what e says
Edit(d, k, e) == IF e.present THEN Put(d, k, e.value) ELSE Drop(d, k)

\* a raw record: a base with one textual and one numeric key set anew
RawRecords ==
  { Edit(Edit(base, tk, te), nk, ne) :
      base \in RawBases,
      tk \in RawTextKeys, te \in Holding(RawTextValues) \cup {Absent},
      nk \in RawNumericKeys, ne \in Holding(RawNumericValues) \cup {Absent} }

ExtractInit ==
  /\ arg \in RawRecords /\ res = "" /\ called = FALSE
  /\ EmitIdle /\ MainIdle

ExtractCall ==
  /\ ~called
  /\ res' = extract_race_info(arg)
  /\ called' = TRUE
  /\ UNCHANGED <<arg, emitVars, mainVars>>

\* extract_race_info on every record of RawRecords
ExtractSpec == ExtractInit /\ [][ExtractCall]_vars


(***************************************************************************)
(* Claims about parse_race_datetime and format_ics_datetime (ParseSpec).   *)
(***************************************************************************)
\* the fields of a local time written YYYY-MM-DDTHH:MM:SS, read off the
\* string by position
LocalFields(s) ==
  [Y |-> NatVal(SubSeq(s, 1, 4)), m |-> NatVal(SubSeq(s, 6, 7)),
   d |-> NatVal(SubSeq(s, 9, 10)), H |-> NatVal(SubSeq(s, 12, 13)),
   M |-> NatVal(SubSeq(s, 15, 16)), S |-> NatVal(SubSeq(s, 18, 19))]

\* the fields are those of a time of the calendar
ValidDatetime(dt) ==
  /\ dt.Y \in 1..9999 /\ dt.m \in 1..12
  /\ dt.d \in 1..(IF dt.m = 2 THEN (IF IsLeap(dt.Y) THEN 29 ELSE 28)
                  ELSE IF dt.m \in {4, 6, 9, 11} THEN 30 ELSE 31)
  /\ dt.H \in 0..23 /\ dt.M \in 0..59 /\ dt.S \in 0..59

\* a date string of the form C2 is about: a local time of the calendar
\* followed by a sign and two or four digits
OffsetForm(s) ==
  /\ Len(s) \in {22, 24}
  /\ ExpectedShape(SubSeq(s, 1, 19))
  /\ ValidDatetime(LocalFields(s))
  /\ Chr(s, 20) \in {"+", "-"}
  /\ AllDigits(SubSeq(s, 21, Len(s)))

\* the offset such a string states, in seconds east of UTC
OffsetSeconds(s) ==
  (IF Chr(s, 20) = "-" THEN -1 ELSE 1)
    * (NatVal(SubSeq(s, 21, 22)) * 3600
       + (IF Len(s) = 24 THEN NatVal(SubSeq(s, 23, 24)) * 60 ELSE 0))

\* the days from 1970-01-01 to a date of the calendar, counted in eras of
\* 400 years that start on March 1st
DaysFromCivil(y, m, d) ==
  LET yy == IF m <= 2 THEN y - 1 ELSE y
      era == yy \div 400
      yoe == yy - era * 400
      doy == ((153 * (IF m > 2 THEN m - 3 ELSE m + 9) + 2) \div 5) + d - 1
      doe == yoe * 365 + (yoe \div 4) - (yoe \div 100) + doy
  IN  era * 146097 + doe - 719468

\* the seconds from 1970-01-01T00:00:00 to a time of the calendar
Instant(dt) ==
  DaysFromCivil(dt.Y, dt.m, dt.d) * 86400 + dt.H * 3600 + dt.M * 60 + dt.S

\* C2: for a date string that is a local time followed by a signed offset
\* of two or four digits, parse_race_datetime returns the instant that is
\* the local time minus the offset (no minutes meaning zero minutes); the
\* two strings of the spec give 20260215T193000Z and 20260301T100000Z.
C2_OffsetSubtracted ==
  called =>
    /\ OffsetForm(arg) =>
         /\ res.dt # NoDatetime
         /\ ValidDatetime(res.dt)
         /\ Instant(res.dt) = Instant(LocalFields(arg)) - OffsetSeconds(arg)
    /\ arg = "2026-02-15T14:30:00-0500" =>
         /\ res.dt = [Y |-> 2026, m |-> 2, d |-> 15, H |-> 19, M |-> 30, S |-> 0]
         /\ res.ics = "20260215T193000Z"
    /\ arg = "2026-03-01T10:00:00+0000" =>
         /\ res.dt = [Y |-> 2026, m |-> 3, d |-> 1, H |-> 10, M |-> 0, S |-> 0]
         /\ res.ics = "20260301T100000Z"

\* C2's case: an offset with no minutes, taken off a time late in the day,
\* so that the instant falls on the next day
C2_Witness ==
  /\ called /\ arg = "2026-12-31T23:30:00-05"
  /\ res.ics = "20270101T043000Z"

(***************************************************************************)
(* Claims about escape_ics_text (EscapeSpec).                              *)
(***************************************************************************)
RECURSIVE Unescape(_)
\* iCalendar unescaping, left to right: \\ is a backslash, \; is ';', \, is
\* ',' and \n is a newline
Unescape(s) ==
  IF s = "" THEN ""
  ELSE IF Head(s) = "\\" /\ Len(s) >= 2
  THEN (CASE Chr(s, 2) = "n" -> "\n"
          [] OTHER -> Chr(s, 2)) \o Unescape(PySlice(s, 2, Len(s)))
  ELSE Head(s) \o Unescape(Tail(s))

\* C5: unescaping what escape_ics_text returns gives the text back, so no
\* two texts escape to the same string; 'Race, Inc.; Finals' becomes
\* 'Race\, Inc.\; Finals'.
C5_EscapeRoundTrip ==
  called =>
    /\ Unescape(res) = arg
    /\ \A t \in EscapeTexts : escape_ics_text(t) = res => t = arg
    /\ arg = "Race, Inc.; Finals" => res = "Race\\, Inc.\\; Finals"

\* C5's case: a backslash before an n, then a comma: the backslash is
\* doubled once, and the backslash put before the comma is not
C5_Witness ==
  /\ called /\ arg = "\\n," /\ res = "\\\\n\\,"

(***************************************************************************)
(* Claims about extract_race_info (ExtractSpec).                           *)
(***************************************************************************)
\* no whitespace at either end
Trimmed(s) == s = "" \/ (~IsSpace(Chr(s, 1)) /\ ~IsSpace(Chr(s, Len(s))))

\* out is text with whitespace, and nothing else, taken off its two ends
TrimOf(out, text) ==
  /\ Trimmed(out)
  /\ \E a \in 0..Len(text) :
       /\ a + Len(out) <= Len(text)
       /\ PySlice(text, a, a + Len(out)) = out
       /\ \A i \in 1..Len(text) :
            (i <= a \/ i > a + Len(out)) => IsSpace(Chr(text, i))

\* C8: extract_race_info returns a record of the nineteen fields; each
\* textual field is a trimmed string, "" when the raw field is missing or
\* null; each numeric field is the raw value, null included (and null when
\* the raw field is missing).
C8_CanonicalRecord ==
  called =>
    /\ DOMAIN res = { f[1] : f \in RaceTextFields \cup RaceNumericFields }
    /\ \A f \in RaceTextFields :
         /\ res[f[1]].t = "str"
         /\ Trimmed(res[f[1]].v)
         /\ (f[2] \notin DOMAIN arg \/ arg[f[2]] = PyNone) => res[f[1]].v = ""
         /\ (f[2] \in DOMAIN arg /\ arg[f[2]].t = "str") =>
              TrimOf(res[f[1]].v, arg[f[2]].v)
    /\ \A f \in RaceNumericFields :
         res[f[1]] = IF f[2] \in DOMAIN arg THEN arg[f[2]] ELSE PyNone

\* C8's case: a raw record with a name in whitespace, a null lap count and
\* no TV field
C8_Witness ==
  /\ called
  /\ "Race_Name" \in DOMAIN arg /\ arg["Race_Name"] = PyS("  Daytona 500 \n")
  /\ res.race_name = PyS("Daytona 500")
  /\ "Scheduled_Laps" \in DOMAIN arg /\ arg["Scheduled_Laps"] = PyNone
  /\ res.scheduled_laps = PyNone
  /\ "Race_TV" \notin DOMAIN arg /\ res.tv_network = PyS("")

(***************************************************************************)
(* Claims about main of scrape_nascar.py (MainSpec).                       *)
(***************************************************************************)
\* the fetch gave data with races in it
Fetched(feed) == feed.schedule_data /\ feed.raw_races # <<>>

\* the raw records main processes of what a fetch returned
RawRacesOf(feed) == IF Fetched(feed) THEN feed.raw_races ELSE <<>>

RECURSIVE RawOf(_)
\* the raw records of the first n fetches, in the order main passed them
RawOf(n) == IF n = 0 THEN <<>> ELSE RawOf(n - 1) \o RawRacesOf(feeds[n])

Processed == RawOf(Len(feeds))

\* the first raw record passed whose track identifier is track_id
FirstRawOfTrack(track_id) ==
  Processed[CHOOSE i \in 1..Len(Processed) :
              /\ Get(Processed[i], "Track_Id") = track_id
              /\ \A j \in 1..(i - 1) : Get(Processed[j], "Track_Id") # track_id]

\* C6: the track set holds at most one record per track identifier, and
\* the record of an identifier is the one extracted from the first raw
\* record passed with that identifier; the track list written is that set.
C6_FirstTrackWins ==
  /\ \A i, j \in 1..Len(all_tracks) :
       all_tracks[i].track_id = all_tracks[j].track_id => i = j
  /\ \A i \in 1..Len(all_tracks) :
       /\ \E j \in 1..Len(Processed) :
            Get(Processed[j], "Track_Id") = all_tracks[i].track_id
       /\ all_tracks[i] =
            extract_track_info(FirstRawOfTrack(all_tracks[i].track_id))
  /\ \A j \in 1..Len(Processed) :
       Truthy(Get(Processed[j], "Track_Id")) =>
         HasTrack(all_tracks, Get(Processed[j], "Track_Id"))
  /\ mpc = "done" =>
       /\ Len(output.tracks) = Len(all_tracks)
       /\ \A i \in 1..Len(all_tracks) :
            \E k \in 1..Len(output.tracks) : output.tracks[k] = all_tracks[i]

\* C6's case: two raw records of one track that give different track
\* records, the second passed after the first
C6_Witness ==
  /\ mpc = "done"
  /\ \E i, j \in 1..Len(Processed) :
       /\ i < j
       /\ Truthy(Get(Processed[i], "Track_Id"))
       /\ Get(Processed[i], "Track_Id") = Get(Processed[j], "Track_Id")
       /\ extract_track_info(Processed[i]) # extract_track_info(Processed[j])

\* the entries of a list of canonical records with this identifier and
\* series name
EntriesOf(list, race_id, series_name) ==
  { i \in 1..Len(list) :
      list[i].race_id = race_id /\ list[i].series = PyS(series_name) }

\* C7 as claimed: the flattened list never holds two records with the same
\* (race identifier, series).
C7_NoRepeatedPairInFlat ==
  mpc = "done" =>
    \A i, j \in 1..Len(output.all_races_chronological) :
      ( /\ output.all_races_chronological[i].race_id
             = output.all_races_chronological[j].race_id
        /\ output.all_races_chronological[i].series
             = output.all_races_chronological[j].series ) => i = j

\* C7 as amended: flattening suppresses nothing.  The flattened list holds,
\* for every series and race identifier, as many records of that pair as
\* the feed of that series, when fetched, held raw records of that
\* identifier, and none when the fetch failed: a race
\* under two series gives two entries, a race twice in one feed gives two
\* entries of one pair.
C7_FlatKeepsEveryRecord ==
  mpc = "done" =>
    \A n \in 1..Len(SeriesKeys) :
      \A id \in { Get(r, "Race_Id") : r \in RawRaces } :
        Cardinality(EntriesOf(output.all_races_chronological, id,
                              SERIES_CONFIG[SeriesKeys[n]].name))
          = Cardinality({ j \in 1..Len(RawRacesOf(feeds[n])) :
                            Get(feeds[n].raw_races[j], "Race_Id") = id })

\* C7's case: a race twice in the feed of the first series and once in
\* the feed of the second
C7_Witness ==
  /\ mpc = "done"
  /\ Cardinality(EntriesOf(output.all_races_chronological, PyI(5123),
                           "NASCAR Cup Series")) = 2
  /\ Cardinality(EntriesOf(output.all_races_chronological, PyI(5123),
                           "NASCAR Xfinity Series")) = 1

\* the list is in non-decreasing order of date_plain
NonDecreasing(list) ==
  \A i \in 1..(Len(list) - 1) :
    ~StrLess(list[i + 1].date_plain.v, list[i].date_plain.v)

\* C9: each per-series list is in non-decreasing order of the plain date
\* and its race count is its length; when main is done the flattened list
\* is in non-decreasing order of the plain date, and each of its records
\* carries the name and key of a series whose list holds that record.
C9_SortedAndAnnotated ==
  /\ \A k \in DOMAIN all_schedules :
       "races" \in DOMAIN all_schedules[k] =>
         /\ NonDecreasing(all_schedules[k].races)
         /\ all_schedules[k].total_races = Len(all_schedules[k].races)
  /\ mpc = "done" =>
       /\ NonDecreasing(output.all_races_chronological)
       /\ Len(output.all_races_chronological) = Len(Processed)
       /\ \A i \in 1..Len(output.all_races_chronological) :
            LET r == output.all_races_chronological[i]
            IN  \E n \in 1..Len(SeriesKeys) :
                  /\ r.series_key = PyS(SeriesKeys[n])
                  /\ r.series = PyS(SERIES_CONFIG[SeriesKeys[n]].name)
                  /\ "races" \in DOMAIN all_schedules[SeriesKeys[n]]
                  /\ \E j \in 1..Len(all_schedules[SeriesKeys[n]].races) :
                       all_schedules[SeriesKeys[n]].races[j]
                         = Drop(Drop(r, "series"), "series_key")

\* C9's case: a feed whose records come latest first, and a second series
\* with a record, so that both sorts have something to move
C9_Witness ==
  /\ mpc = "done"
  /\ Fetched(feeds[1]) /\ Fetched(feeds[3])
  /\ Len(feeds[1].raw_races) = 2
  /\ StrLess(clean_string(Get(feeds[1].raw_races[2], "Race_Date_Plain")),
             clean_string(Get(feeds[1].raw_races[1], "Race_Date_Plain")))
  /\ Len(feeds[3].raw_races) = 1
  /\ StrLess(clean_string(Get(feeds[3].raw_races[1], "Race_Date_Plain")),
             clean_string(Get(feeds[1].raw_races[2], "Race_Date_Plain")))

=============================================================================
